---- MODULE Spec2Model ----
(***************************************************************************)
(* A model of the sudoku solver of src/src/sudoku.rs: the board of cells,  *)
(* the checkpoint stack previous_states, SudokuSolver::new, the loop of    *)
(* SudokuSolver::solve and check_if_correct.                               *)
(*                                                                         *)
(* cell.rs and point.rs are not among the source files; Cell and its       *)
(* operations (new_empty, new_filled, get_entropy, collapse, remove) are   *)
(* modelled from section 4.1 of the specification.                         *)
(***************************************************************************)
EXTENDS Integers, Sequences, FiniteSets, TLC

VARIABLES
    starting_state,   \* the argument of SudokuSolver::new: 9 rows of 9 digits 0..9
    pc,               \* where the caller / the solve loop stands
    board,            \* SudokuSolver.board: 9 rows of 9 cells
    previous_states,  \* SudokuSolver.previous_states: the checkpoint stack, newest last
    collapsing,       \* collapse_cell_and_save_state's locals between collapse and propagation
    result,           \* what the last call of new / solve returned
    check_result      \* what the last call of check_if_correct returned ("none": not called)

vars == <<starting_state, pc, board, previous_states, collapsing, result, check_result>>

----------------------------------------------------------------------------
(* Program constants *)

\* the side of the grid: `0..9` loops, vec![...; 9]
Side == 9

\* the side of a region: get_region_coords divides and multiplies by 3
RegionSide == 3

Digits == 1..Side

Coord == 0..(Side - 1)

\* Point<usize>: a coordinate pair
Point(x, y) == [x |-> x, y |-> y]

Points == {Point(x, y) : x \in Coord, y \in Coord}

----------------------------------------------------------------------------
(* Cell, from section 4.1 of the specification *)

\* Cell::Collapsed(v)
Collapsed(v) == [collapsed |-> TRUE, value |-> v, candidates |-> {}]

\* Cell::Uncollapsed(S)
Uncollapsed(S) == [collapsed |-> FALSE, value |-> 0, candidates |-> S]

\* Cell::new_empty(): all nine digits are candidates
new_empty == Uncollapsed(Digits)

\* Cell::new_filled(v)
new_filled(v) == Collapsed(v)

\* Cell::get_entropy(): |S| for Uncollapsed, 1 for Collapsed
get_entropy(cell) == IF cell.collapsed THEN 1 ELSE Cardinality(cell.candidates)

\* the lowest-numbered remaining candidate
LowestCandidate(cell) == CHOOSE v \in cell.candidates : \A w \in cell.candidates : v <= w

\* Cell::collapse(): the cell in place becomes Collapsed(lowest candidate) ...
collapse_cell(cell) == Collapsed(LowestCandidate(cell))

\* ... and the value returned is the shadow: the candidates minus the chosen one
collapse_shadow(cell) == Uncollapsed(cell.candidates \ {LowestCandidate(cell)})

\* Cell::remove(v) returns Ok: a Collapsed cell refuses its own value, an
\* Uncollapsed cell refuses the removal that would empty it
remove_ok(cell, v) ==
    IF cell.collapsed THEN cell.value # v
    ELSE cell.candidates \ {v} # {}

\* Cell::remove(v), the cell afterwards: a Collapsed cell never changes, a refused
\* removal stores nothing
remove_cell(cell, v) ==
    IF cell.collapsed \/ ~remove_ok(cell, v) THEN cell
    ELSE Uncollapsed(cell.candidates \ {v})

----------------------------------------------------------------------------
(* Board access and neighbourhoods *)

\* get_cell / get_cell_mut: board[y][x] (sequences are 1-based)
get_cell(b, p) == b[p.y + 1][p.x + 1]

\* *get_cell_mut(p) = cell
set_cell(b, p, cell) == [b EXCEPT ![p.y + 1][p.x + 1] = cell]

get_region_coords(p) ==
    Point((p.x \div RegionSide) * RegionSide, (p.y \div RegionSide) * RegionSide)

get_region(p) ==
    LET o == get_region_coords(p)
    IN  {Point(x, y) : x \in o.x..(o.x + RegionSide - 1), y \in o.y..(o.y + RegionSide - 1)}

get_row(y) == {Point(x, y) : x \in Coord}

get_column(x) == {Point(x, y) : y \in Coord}

\* relatives that leave out the region
get_relatives_without_region(p) == (get_row(p.y) \cup get_column(p.x)) \ {p}

\* relatives that leave out the column
get_relatives_without_column(p) == (get_row(p.y) \cup get_region(p)) \ {p}

get_relatives(p) == (get_row(p.y) \cup get_column(p.x) \cup get_region(p)) \ {p}

\* the relatives of every point, computed once
RelativesOf == [p \in Points |-> get_relatives(p)]

----------------------------------------------------------------------------
(* Propagation *)

\* failing relatives that miss the Uncollapsed cell a removal would empty
FailingCollapsedRelatives(b, p, value) ==
    {r \in RelativesOf[p] : get_cell(b, r).collapsed /\ ~remove_ok(get_cell(b, r), value)}

\* failing relatives that miss the Collapsed cell holding the value
FailingUncollapsedRelatives(b, p, value) ==
    {r \in RelativesOf[p] : ~get_cell(b, r).collapsed /\ ~remove_ok(get_cell(b, r), value)}

\* the relatives whose remove(value) returns Err
FailingRelatives(b, p, value) ==
    {r \in RelativesOf[p] : ~remove_ok(get_cell(b, r), value)}

\* the relatives whose remove(value) returns Ok and changes the cell
AffectedRelatives(b, p, value) ==
    {r \in RelativesOf[p] : /\ remove_ok(get_cell(b, r), value)
                            /\ remove_cell(get_cell(b, r), value) # get_cell(b, r)}

\* propagate_collapse returns Ok: no remove of the loop fails
propagate_ok(b, p, value) == FailingRelatives(b, p, value) = {}

\* a loop body that also collapses a cell left with a single candidate
remove_from_promoting(b, visited, value) ==
    [y \in 1..Side |-> [x \in 1..Side |->
        IF Point(x - 1, y - 1) \in visited
        THEN IF Cardinality(remove_cell(b[y][x], value).candidates) = 1
             THEN collapse_cell(remove_cell(b[y][x], value))
             ELSE remove_cell(b[y][x], value)
        ELSE b[y][x]]]

\* the board after remove(value) ran on the cells of `visited`
remove_from(b, visited, value) ==
    [y \in 1..Side |-> [x \in 1..Side |->
        IF Point(x - 1, y - 1) \in visited THEN remove_cell(b[y][x], value) ELSE b[y][x]]]

\* propagate_collapse, the board after a run that returned Ok: every relative visited
propagate_collapse(b, p, value) == remove_from(b, RelativesOf[p], value)

\* propagate_collapse, the boards a run that returned Err can leave. The relatives
\* come out of a HashSet in an unspecified order and the loop stops at the first
\* failing remove, so the cells visited before it are any set of relatives whose
\* remove succeeds (only those a remove changes make a difference).
propagate_partial(b, p, value) ==
    {remove_from(b, visited, value) : visited \in SUBSET AffectedRelatives(b, p, value)}

----------------------------------------------------------------------------
(* SudokuSolver::new *)

\* vec![vec![Cell::new_empty(); 9]; 9]
EmptyBoard == [y \in 1..Side |-> [x \in 1..Side |-> new_empty]]

\* the inner loop of new over the entries x.. of row y, on board b: the result (ok)
\* and, when Ok, the board; after an Err no solver is left
RECURSIVE new_row(_, _, _, _)
new_row(starting, b, y, x) ==
    IF x = Side THEN [ok |-> TRUE, board |-> b]
    ELSE LET cell == starting[y + 1][x + 1]
             filled == set_cell(b, Point(x, y), new_filled(cell))
         IN  IF cell = 0 THEN new_row(starting, b, y, x + 1)
             ELSE IF propagate_ok(filled, Point(x, y), cell)
                  THEN new_row(starting, propagate_collapse(filled, Point(x, y), cell), y, x + 1)
                  ELSE [ok |-> FALSE, board |-> EmptyBoard]

\* the outer loop of new over the rows y..
RECURSIVE new_rows(_, _, _)
new_rows(starting, b, y) ==
    IF y = Side THEN [ok |-> TRUE, board |-> b]
    ELSE LET row == new_row(starting, b, y, 0)
         IN  IF row.ok THEN new_rows(starting, row.board, y + 1) ELSE row

new(starting) == new_rows(starting, EmptyBoard, 0)

----------------------------------------------------------------------------
(* Cell selection *)

\* Option<Point>::None
None == [x |-> Side, y |-> Side]

\* u8::MAX, the start value of lowest_entropy
U8Max == 255

\* an inner loop that compares with <= and so keeps the last minimum
RECURSIVE scan_row_keeping_last(_, _, _, _)
scan_row_keeping_last(b, y, x, found) ==
    IF x = Side THEN found
    ELSE LET current_cell == b[y + 1][x + 1]
         IN  IF current_cell.collapsed THEN scan_row_keeping_last(b, y, x + 1, found)
             ELSE IF get_entropy(current_cell) <= found.lowest_entropy
                  THEN scan_row_keeping_last(b, y, x + 1,
                                             [cell |-> Point(x, y),
                                              lowest_entropy |-> get_entropy(current_cell)])
                  ELSE scan_row_keeping_last(b, y, x + 1, found)

\* the inner loop of get_coords_of_uncollapsed_cell_with_lowest_entropy over the cells
\* x.. of row y; found holds the locals `cell` and `lowest_entropy`
RECURSIVE scan_row(_, _, _, _)
scan_row(b, y, x, found) ==
    IF x = Side THEN found
    ELSE LET current_cell == b[y + 1][x + 1]
         IN  IF current_cell.collapsed THEN scan_row(b, y, x + 1, found)
             ELSE IF get_entropy(current_cell) < found.lowest_entropy
                  THEN scan_row(b, y, x + 1, [cell |-> Point(x, y),
                                              lowest_entropy |-> get_entropy(current_cell)])
                  ELSE scan_row(b, y, x + 1, found)

\* the outer loop over the rows y..
RECURSIVE scan_rows(_, _, _)
scan_rows(b, y, found) ==
    IF y = Side THEN found
    ELSE scan_rows(b, y + 1, scan_row(b, y, 0, found))

get_coords_of_uncollapsed_cell_with_lowest_entropy(b) ==
    scan_rows(b, 0, [cell |-> None, lowest_entropy |-> U8Max]).cell

\* a should_save that saves on every collapse
should_save_always(cell) == get_entropy(cell) > 0

\* a should_save that saves only when two or more alternatives are discarded
should_save_from_three(cell) == get_entropy(cell) > 2

\* should_save = cell.get_entropy() > 1
should_save(cell) == get_entropy(cell) > 1

\* a checkpoint that keeps the collapsed cell instead of the shadow value
checkpoint_of_live_board(b, p, value_with_collapsed_num_removed) == b

\* a checkpoint that writes the shadow value at board[x][y]
checkpoint_transposed(b, p, value_with_collapsed_num_removed) ==
    set_cell(b, Point(p.y, p.x), value_with_collapsed_num_removed)

\* the board pushed on previous_states: a clone of the board (as it is after the
\* collapse) with the cell replaced by value_with_collapsed_num_removed
checkpoint(b, p, value_with_collapsed_num_removed) ==
    set_cell(b, p, value_with_collapsed_num_removed)

\* a restore that takes the oldest checkpoint
oldest_state(stack) == stack[1]

\* `Some(previous_state) => self.board = previous_state`: the popped entry
popped_state(stack) == stack[Len(stack)]

\* a restore that reads the last checkpoint and leaves it on the stack
after_peek(stack) == stack

\* previous_states after pop()
after_pop(stack) == SubSeq(stack, 1, Len(stack) - 1)

----------------------------------------------------------------------------
(* check_if_correct *)

\* points_to_digits: the digit of a Collapsed cell, 0 for an Uncollapsed one
points_to_digits(b, points) ==
    {IF get_cell(b, p).collapsed THEN get_cell(b, p).value ELSE 0 : p \in points}

\* check_if_hash_has_all_digits: every digit of the set is removed from 1..9 (a digit
\* that is not there returns false) and nothing may be left
check_if_hash_has_all_digits(hash) ==
    /\ \A digit \in hash : digit \in Digits
    /\ Digits \ hash = {}

check_if_points_have_all_digits(b, points) ==
    check_if_hash_has_all_digits(points_to_digits(b, points))

check_rows(b) == \A y \in Coord : check_if_points_have_all_digits(b, get_row(y))

check_columns(b) == \A x \in Coord : check_if_points_have_all_digits(b, get_column(x))

\* the region origins 0, 3, 6
RegionOrigins == {c \in Coord : c % RegionSide = 0}

check_regions(b) ==
    \A y \in RegionOrigins : \A x \in RegionOrigins :
        check_if_points_have_all_digits(b, get_region(Point(x, y)))

\* a check that forgets the regions
check_rows_and_columns(b) == check_rows(b) /\ check_columns(b)

check_if_correct(b) == check_rows(b) /\ check_columns(b) /\ check_regions(b)

----------------------------------------------------------------------------
(* Inputs: the starting grids the model is run on *)

\* the puzzle of main
MainPuzzle ==
    << <<0, 0, 0, 0, 0, 0, 0, 8, 0>>,
       <<6, 8, 0, 4, 7, 0, 0, 2, 0>>,
       <<0, 1, 9, 5, 0, 8, 6, 4, 7>>,
       <<0, 6, 0, 9, 0, 0, 0, 0, 4>>,
       <<3, 4, 2, 6, 8, 0, 0, 0, 0>>,
       <<1, 9, 0, 0, 5, 0, 8, 3, 0>>,
       <<0, 0, 0, 7, 2, 0, 4, 0, 3>>,
       <<0, 0, 6, 0, 0, 5, 0, 1, 0>>,
       <<0, 0, 3, 8, 9, 1, 5, 0, 0>> >>

\* how many of the givens listed in Removable are blanked at most
MaxRemoved == 2

\* givens of the main puzzle whose removal leaves puzzles that need guessing
Removable == <<Point(1, 2), Point(3, 4), Point(0, 5), Point(8, 2), Point(1, 1)>>

\* grid with the entry at p set to d
WithEntry(grid, p, d) == [grid EXCEPT ![p.y + 1][p.x + 1] = d]

\* the main puzzle with the first n givens of Removable blanked
RECURSIVE Blanked(_)
Blanked(n) ==
    IF n = 0 \/ n > Len(Removable) THEN MainPuzzle
    ELSE WithEntry(Blanked(n - 1), Removable[n], 0)

\* the rows (from the top) in which an entry may be changed
ChangeRows == 3

\* the starting grids: the main puzzle with up to MaxRemoved givens blanked and then
\* any one entry of the first ChangeRows rows set to any of 0..9 (which keeps, blanks,
\* adds or changes a given)
StartingGrids ==
    {WithEntry(Blanked(n), p, d) :
        n \in 0..MaxRemoved, p \in {q \in Points : q.y < ChangeRows}, d \in 0..Side}

----------------------------------------------------------------------------
(* The state machine *)

\* no collapse is under way
NoCollapse == [cell_coords |-> None, collapsed_to_num |-> 0]

Init ==
    /\ starting_state \in StartingGrids
    /\ pc = "new"
    /\ board = EmptyBoard
    /\ previous_states = <<>>
    /\ collapsing = NoCollapse
    /\ result = "none"
    /\ check_result = "none"

\* SudokuSolver::new(starting_state): Ok with the solver, or the contradiction error
\* (no solver exists then)
New ==
    /\ pc = "new"
    /\ \E made \in {new(starting_state)} :
           /\ board' = made.board
           /\ pc' = IF made.ok THEN "ready" ELSE "done"
           /\ result' = IF made.ok THEN "Ok" ELSE "ErrorSudokuContainsAContradiction"
    /\ previous_states' = <<>>
    /\ UNCHANGED <<starting_state, collapsing, check_result>>

\* solve is called on the solver new returned: solved = false, the loop is entered
SolveStart ==
    /\ pc = "ready"
    /\ pc' = "searching"
    /\ result' = "none"
    /\ check_result' = "none"
    /\ UNCHANGED <<starting_state, board, previous_states, collapsing>>

\* solve_iteration finds no Uncollapsed cell: Ok(true), solved = true, solve returns Ok
SolveSolved ==
    /\ pc = "searching"
    /\ get_coords_of_uncollapsed_cell_with_lowest_entropy(board) = None
    /\ pc' = "done"
    /\ result' = "Ok"
    /\ UNCHANGED <<starting_state, board, previous_states, collapsing, check_result>>

\* collapse_cell_and_save_state up to the call of propagate_collapse: the selected
\* cell is collapsed and, if it had more than one candidate, a checkpoint is pushed
CollapseCellAndSaveState ==
    /\ pc = "searching"
    /\ \E cell_coords \in {get_coords_of_uncollapsed_cell_with_lowest_entropy(board)} :
           /\ cell_coords # None
           /\ \E cell \in {get_cell(board, cell_coords)} :
              \E collapsed \in {set_cell(board, cell_coords, collapse_cell(cell))} :
                  /\ board' = collapsed
                  /\ previous_states' =
                       IF should_save(cell)
                       THEN Append(previous_states,
                                   checkpoint(collapsed, cell_coords, collapse_shadow(cell)))
                       ELSE previous_states
                  /\ collapsing' = [cell_coords |-> cell_coords,
                                    collapsed_to_num |-> collapse_cell(cell).value]
    /\ pc' = "propagating"
    /\ UNCHANGED <<starting_state, result, check_result>>

\* propagate_collapse returns Ok: solve_iteration returns Ok(false), the loop continues
PropagateCollapse ==
    /\ pc = "propagating"
    /\ propagate_ok(board, collapsing.cell_coords, collapsing.collapsed_to_num)
    /\ board' = propagate_collapse(board, collapsing.cell_coords, collapsing.collapsed_to_num)
    /\ collapsing' = NoCollapse
    /\ pc' = "searching"
    /\ UNCHANGED <<starting_state, previous_states, result, check_result>>

\* propagate_collapse returns Err and previous_states.pop() is Some: the popped board
\* replaces the live one and the loop continues
Backtrack ==
    /\ pc = "propagating"
    /\ ~propagate_ok(board, collapsing.cell_coords, collapsing.collapsed_to_num)
    /\ previous_states # <<>>
    /\ board' = popped_state(previous_states)
    /\ previous_states' = after_pop(previous_states)
    /\ collapsing' = NoCollapse
    /\ pc' = "searching"
    /\ UNCHANGED <<starting_state, result, check_result>>

\* propagate_collapse returns Err and previous_states.pop() is None: break, and solve
\* returns SudokuIsUnsolvable, with the board as the failed propagation left it
GiveUp ==
    /\ pc = "propagating"
    /\ ~propagate_ok(board, collapsing.cell_coords, collapsing.collapsed_to_num)
    /\ previous_states = <<>>
    /\ board' \in propagate_partial(board, collapsing.cell_coords, collapsing.collapsed_to_num)
    /\ collapsing' = NoCollapse
    /\ pc' = "done"
    /\ result' = "SudokuIsUnsolvable"
    /\ UNCHANGED <<starting_state, previous_states, check_result>>

\* check_if_correct is called on the solver new returned, before solve is called or
\* after it returned
CheckIfCorrect ==
    /\ pc \in {"ready", "done"}
    /\ result \in {"Ok", "SudokuIsUnsolvable"}
    /\ check_result' = IF check_if_correct(board) THEN "true" ELSE "false"
    /\ UNCHANGED <<starting_state, pc, board, previous_states, collapsing, result>>

Next ==
    \/ New
    \/ SolveStart
    \/ SolveSolved
    \/ CollapseCellAndSaveState
    \/ PropagateCollapse
    \/ Backtrack
    \/ GiveUp
    \/ CheckIfCorrect

Spec == Init /\ [][Next]_vars

----------------------------------------------------------------------------
(* What a starting grid is, independently of the solver *)

entry(grid, p) == grid[p.y + 1][p.x + 1]

\* two different cells share a row, a column or a 3x3 region
SharesUnit(p, q) ==
    /\ p # q
    /\ \/ p.x = q.x
       \/ p.y = q.y
       \/ /\ p.x \div RegionSide = q.x \div RegionSide
          /\ p.y \div RegionSide = q.y \div RegionSide

\* the cells sharing a unit with each cell, computed once
Peers == [p \in Points |-> {q \in Points : SharesUnit(p, q)}]

\* no two cells sharing a row, a column or a region are given the same nonzero digit
NoDuplicate(grid) ==
    \A p \in Points :
        entry(grid, p) # 0 => \A q \in Peers[p] : entry(grid, q) # entry(grid, p)

\* the digits no peer of p is given
Admissible(grid, p) == Digits \ {entry(grid, q) : q \in Peers[p]}

\* some blank cell has no admissible digit
HasDeadBlank(grid) == \E p \in Points : entry(grid, p) = 0 /\ Admissible(grid, p) = {}

\* the points in row-major order
RowMajor == [i \in 1..(Side * Side) |-> Point((i - 1) % Side, (i - 1) \div Side)]

IsBlank(grid, p) == entry(grid, p) = 0

\* the blanks of a grid in row-major order
Blanks(grid) == SelectSeq(RowMajor, LAMBDA p : IsBlank(grid, p))

\* every way of filling the blanks k.. of a duplicate-free grid that leaves it
\* duplicate-free: the blanks are filled one by one with every admissible digit
RECURSIVE Fillings(_, _, _)
Fillings(grid, blanks, k) ==
    IF k > Len(blanks) THEN {grid}
    ELSE UNION {Fillings(WithEntry(grid, blanks[k], d), blanks, k + 1) :
                    d \in Admissible(grid, blanks[k])}

\* the valid completions of a starting grid
Completions(grid) == IF NoDuplicate(grid) THEN Fillings(grid, Blanks(grid), 1) ELSE {}

\* the board whose every cell is Collapsed to the digit of a full grid
SolvedBoard(grid) == [y \in 1..Side |-> [x \in 1..Side |-> Collapsed(grid[y][x])]]

AllCollapsed(b) == \A p \in Points : get_cell(b, p).collapsed

----------------------------------------------------------------------------
(* Claims *)

\* C1: when the starting grid has no duplicate and exactly one valid completion, new
\* does not fail and solve, once returned, has returned Ok with every cell Collapsed,
\* the board equal to that completion and check_if_correct true.
C1_UniquePuzzleIsSolved ==
    (pc = "done" /\ NoDuplicate(starting_state)) =>
        \A completions \in {Completions(starting_state)} :
            Cardinality(completions) = 1 =>
                /\ result = "Ok"
                /\ AllCollapsed(board)
                /\ \A full \in completions : board = SolvedBoard(full)
                /\ check_if_correct(board)
                /\ check_result \in {"none", "true"}

\* the puzzle of main is solved and checked
C1_Witness ==
    /\ pc = "done"
    /\ starting_state = MainPuzzle
    /\ result = "Ok"
    /\ check_result = "true"
    /\ Cardinality(Completions(starting_state)) = 1

\* new returned the contradiction error: no solver exists
NewFailed == pc = "done" /\ result = "ErrorSudokuContainsAContradiction"

\* C2: when two cells sharing a row, a column or a region are given the same nonzero
\* digit, new returns ErrorSudokuContainsAContradiction, whatever the other entries
\* are, and solve never runs.
C2_DuplicateIsRejected ==
    (pc # "new" /\ ~NoDuplicate(starting_state)) =>
        /\ NewFailed
        /\ previous_states = <<>>

\* a grid whose only duplicate is inside a region (different rows and columns) is rejected
C2_Witness ==
    /\ NewFailed
    /\ \E p \in Points : \E q \in Peers[p] :
          /\ entry(starting_state, p) # 0
          /\ entry(starting_state, p) = entry(starting_state, q)
          /\ p.x # q.x
          /\ p.y # q.y
    /\ \A p \in Points : \A q \in Peers[p] :
          (p.x = q.x \/ p.y = q.y) =>
              (entry(starting_state, p) = 0 \/ entry(starting_state, p) # entry(starting_state, q))

\* C3 as claimed: a duplicate-free starting grid with no valid completion is always
\* reported by solve, as SudokuIsUnsolvable with an empty checkpoint stack.
C3_UnsolvableReportedBySolve ==
    (pc = "done" /\ NoDuplicate(starting_state)) =>
        (Completions(starting_state) = {} =>
            /\ result = "SudokuIsUnsolvable"
            /\ previous_states = <<>>)

\* C3, amended: a duplicate-free starting grid with no valid completion is reported by
\* new (the contradiction error) when some blank cell has every digit among the givens
\* of its relatives, and otherwise by solve, as SudokuIsUnsolvable with an empty
\* checkpoint stack.
C3_UnsolvableReportedByNewOrSolve ==
    (pc = "done" /\ NoDuplicate(starting_state)) =>
        (Completions(starting_state) = {} =>
            IF HasDeadBlank(starting_state)
            THEN NewFailed
            ELSE /\ result = "SudokuIsUnsolvable"
                 /\ previous_states = <<>>)

\* solve gave up on a duplicate-free grid all of whose blanks have an admissible digit
C3_Witness ==
    /\ pc = "done"
    /\ result = "SudokuIsUnsolvable"
    /\ previous_states = <<>>
    /\ NoDuplicate(starting_state)
    /\ ~HasDeadBlank(starting_state)
    /\ check_result = "false"

\* C4 as claimed: new returns Ok on every starting grid without a duplicate.
C4_NewOkWithoutDuplicate ==
    (pc # "new" /\ NoDuplicate(starting_state)) => ~NewFailed

\* C4, amended: new returns the contradiction error exactly when the givens hold a
\* duplicate or leave some blank cell without an admissible digit; on every other
\* starting grid new returns Ok, also when the grid has no completion.
C4_NewOkWithoutDuplicateOrDeadBlank ==
    pc # "new" =>
        (NewFailed <=> (~NoDuplicate(starting_state) \/ HasDeadBlank(starting_state)))

\* new returned Ok on a grid without a completion: solve found it unsolvable
C4_Witness ==
    /\ pc = "done"
    /\ result = "SudokuIsUnsolvable"
    /\ NoDuplicate(starting_state)
    /\ check_result = "none"

----------------------------------------------------------------------------
(* Termination of solve: a rank that every step of the loop lowers *)

\* the number of candidates left in the Uncollapsed cells of a board
Weight(b) ==
    Cardinality(UNION {{<<p, d>> : d \in get_cell(b, p).candidates} :
                          p \in {q \in Points : ~get_cell(b, q).collapsed}})

\* the weights of the checkpoints, oldest first, then the weight of the live board
Rank(stack, b) ==
    [i \in 1..Len(stack) |-> Weight(stack[i])] \o <<Weight(b)>>

\* dictionary order: s is a proper prefix of t, or s is lower where they first differ
LexLess(s, t) ==
    \/ /\ Len(s) < Len(t)
       /\ \A i \in 1..Len(s) : s[i] = t[i]
    \/ \E k \in 1..Len(s) :
          /\ k <= Len(t)
          /\ s[k] < t[k]
          /\ \A i \in 1..(k - 1) : s[i] = t[i]

\* ranks are strictly decreasing sequences over 0..729, of which there are finitely
\* many: no infinite descent in dictionary order
WellFormedRank(s) ==
    /\ \A i \in 1..Len(s) : s[i] \in 0..(Side * Side * Side)
    /\ \A i \in 1..(Len(s) - 1) : s[i] > s[i + 1]

InLoop == pc \in {"searching", "propagating"}

\* the step lowers the rank, or keeps it and completes an iteration
RankDecreases(before, after) ==
    /\ WellFormedRank(after)
    /\ \/ LexLess(after, before)
       \/ after = before /\ pc = "propagating" /\ pc' = "searching"

\* C5: solve terminates. Every step taken inside the loop of solve either ends it, in
\* one of the two terminal states (Ok with no Uncollapsed cell left, or
\* SudokuIsUnsolvable after a contradiction with an empty checkpoint stack), or
\* strictly lowers a rank that cannot be lowered for ever; so no run loops for ever.
\* (A state inside the loop always has a next step: the loop takes one whatever
\* solve_iteration returns, and a cell it selects has a candidate to collapse to.)
C5_SolveTerminates ==
    [][InLoop =>
          /\ \A p \in Points :
                 ~get_cell(board, p).collapsed => get_cell(board, p).candidates # {}
          /\ \/ /\ pc' = "done"
                /\ \/ /\ result' = "Ok"
                      /\ AllCollapsed(board')
                   \/ /\ result' = "SudokuIsUnsolvable"
                      /\ pc = "propagating"
                      /\ previous_states = <<>>
             \/ /\ InLoop'
                /\ \E before \in {Rank(previous_states, board)} :
                   \E after \in {Rank(previous_states', board')} :
                       RankDecreases(before, after)
      ]_vars

\* solve gave up in the middle of a search: cells with several candidates are left
C5_Witness ==
    /\ pc = "done"
    /\ result = "SudokuIsUnsolvable"
    /\ \E p \in Points : Cardinality(get_cell(board, p).candidates) > 1

----------------------------------------------------------------------------
(* check_if_correct on arbitrary boards *)

\* the completion of the main puzzle
MainSolution == CHOOSE full \in Completions(MainPuzzle) : TRUE

\* a full grid with rows a and b exchanged
WithRowsSwapped(grid, a, b) ==
    [y \in 1..Side |-> IF y = a + 1 THEN grid[b + 1] ELSE IF y = b + 1 THEN grid[a + 1] ELSE grid[y]]

\* cells a board is perturbed with
SomeCells ==
    {Collapsed(d) : d \in Digits}
        \cup {Uncollapsed(Digits), Uncollapsed({1}), Uncollapsed({RegionSide, Side})}

\* the boards check_if_correct is tried on: the solved main puzzle with two rows
\* exchanged (which keeps it correct inside a band of three rows, and breaks only the
\* regions across bands), and then one cell of the first ChangeRows rows replaced
CheckedBoards ==
    {set_cell(SolvedBoard(WithRowsSwapped(MainSolution, a, b)), p, cell) :
        a \in Coord, b \in Coord, p \in {q \in Points : q.y < ChangeRows}, cell \in SomeCells}

InitCheck ==
    /\ starting_state = MainPuzzle
    /\ pc = "done"
    /\ board \in CheckedBoards
    /\ previous_states \in {<<>>, <<EmptyBoard>>}
    /\ collapsing = NoCollapse
    /\ result = "Ok"
    /\ check_result = "none"

SpecCheck == InitCheck /\ [][CheckIfCorrect]_vars

\* the digit d is held by exactly one cell of the unit
HeldOnce(b, unit, d) ==
    Cardinality({p \in unit : get_cell(b, p).collapsed /\ get_cell(b, p).value = d}) = 1

Rows == {{q \in Points : q.y = y} : y \in Coord}

Columns == {{q \in Points : q.x = x} : x \in Coord}

Regions ==
    {{q \in Points : q.x \div RegionSide = i /\ q.y \div RegionSide = j} :
        i \in 0..(Side \div RegionSide - 1), j \in 0..(Side \div RegionSide - 1)}

\* every cell is Collapsed and every row, column and region holds each digit once
IsCorrect(b) ==
    /\ \A p \in Points : get_cell(b, p).collapsed
    /\ \A unit \in Rows \cup Columns \cup Regions : \A d \in Digits : HeldOnce(b, unit, d)

\* C6: check_if_correct returns true exactly when every cell is Collapsed and every
\* row, column and region holds each digit 1..9 exactly once (so any Uncollapsed cell
\* forces false); the call changes neither the board nor the checkpoint stack, and a
\* repeated call returns the same result.
C6_CheckIfCorrect ==
    [][/\ board' = board
       /\ previous_states' = previous_states
       /\ check_result' = (IF IsCorrect(board) THEN "true" ELSE "false")
       /\ check_result # "none" => check_result' = check_result
      ]_vars

\* the check returned false on a board whose rows and columns are all complete: only
\* regions are wrong
C6_Witness ==
    /\ check_result = "false"
    /\ \A p \in Points : get_cell(board, p).collapsed
    /\ \A unit \in Rows \cup Columns : \A d \in Digits : HeldOnce(board, unit, d)

----------------------------------------------------------------------------
(* solve on grids with many solutions *)

EmptyGrid == [y \in 1..Side |-> [x \in 1..Side |-> 0]]

\* the empty grid, and the empty grid with one given in the first ChangeRows rows
SparseGrids ==
    {WithEntry(EmptyGrid, p, d) : p \in {q \in Points : q.y < ChangeRows}, d \in 0..Side}

InitAny ==
    /\ starting_state \in StartingGrids \cup SparseGrids
    /\ pc = "new"
    /\ board = EmptyBoard
    /\ previous_states = <<>>
    /\ collapsing = NoCollapse
    /\ result = "none"
    /\ check_result = "none"

SpecAny == InitAny /\ [][Next]_vars

\* C7: whenever solve returns Ok, no cell of the live board is Uncollapsed, no two
\* cells sharing a row, column or region hold the same digit, and check_if_correct
\* is true of the board.
C7_OkIsCorrect ==
    (pc = "done" /\ result = "Ok") =>
        /\ \A p \in Points : get_cell(board, p).collapsed
        /\ \A p \in Points : \A q \in Peers[p] :
               get_cell(board, p).value # get_cell(board, q).value
        /\ check_if_correct(board)
        /\ check_result # "false"

\* solve returned Ok on the empty grid
C7_Witness ==
    /\ starting_state = EmptyGrid
    /\ pc = "done"
    /\ result = "Ok"
    /\ check_result = "true"

----------------------------------------------------------------------------
(* Backtracking and the checkpoint stack *)

\* propagating value from p fails: a cell sharing a row, a column or a region with p
\* is Collapsed to value, or is Uncollapsed with value as its only candidate
Contradicts(b, p, value) ==
    \E q \in Peers[p] :
        \/ get_cell(b, q).collapsed /\ get_cell(b, q).value = value
        \/ ~get_cell(b, q).collapsed /\ get_cell(b, q).candidates = {value}

\* the collapse under propagation runs into a contradiction
Contradiction ==
    /\ pc = "propagating"
    /\ Contradicts(board, collapsing.cell_coords, collapsing.collapsed_to_num)

\* C8: on a propagation contradiction with a non-empty stack, solve pops exactly the
\* most recently pushed checkpoint, the live board becomes that checkpoint, the
\* remaining checkpoints are unchanged and in the same order, and solve stays in
\* Searching; SudokuIsUnsolvable is returned only on a contradiction with an empty
\* stack.
C8_BacktrackRestoresLastCheckpoint ==
    [][/\ (Contradiction /\ previous_states # <<>>) =>
              /\ board' = previous_states[Len(previous_states)]
              /\ Len(previous_states') = Len(previous_states) - 1
              /\ \A i \in 1..Len(previous_states') : previous_states'[i] = previous_states[i]
              /\ pc' = "searching"
              /\ result' = "none"
       /\ (result' = "SudokuIsUnsolvable" /\ result # "SudokuIsUnsolvable") =>
              Contradiction /\ previous_states = <<>>
       /\ (Contradiction /\ previous_states = <<>>) => result' = "SudokuIsUnsolvable"
      ]_vars

\* a contradiction with three checkpoints on the stack, the most recent of which
\* differs from the live board in more than the collapsed cell: the failed collapse
\* pushed none, and the propagation of earlier collapses is undone with it
C8_Witness ==
    /\ Contradiction
    /\ Len(previous_states) >= 3
    /\ \E p \in Points :
           /\ p # collapsing.cell_coords
           /\ get_cell(previous_states[Len(previous_states)], p) # get_cell(board, p)

\* the lowest candidate of an Uncollapsed cell
Lowest(cell) == CHOOSE d \in cell.candidates : \A e \in cell.candidates : d <= e

\* board b with the cell at p replaced
With(b, p, cell) == [b EXCEPT ![p.y + 1][p.x + 1] = cell]

\* C9: in a solve iteration that collapses a cell, a checkpoint is pushed if and only
\* if the selected cell had more than one candidate; the pushed board is the live
\* board as it was at the start of the iteration except that the selected cell is
\* Uncollapsed with its candidates minus the lowest one; the live board's selected
\* cell becomes Collapsed(lowest candidate), and nothing else of it changes before
\* the propagation.
C9_CheckpointOnCollapse ==
    [][(pc = "searching" /\ pc' = "propagating") =>
          \E p \in Points :
              /\ collapsing'.cell_coords = p
              /\ ~get_cell(board, p).collapsed
              /\ collapsing'.collapsed_to_num = Lowest(get_cell(board, p))
              /\ board' = With(board, p, Collapsed(Lowest(get_cell(board, p))))
              /\ previous_states' # previous_states <=>
                     Cardinality(get_cell(board, p).candidates) > 1
              /\ previous_states' # previous_states =>
                     previous_states' =
                         previous_states \o
                             <<With(board, p,
                                    Uncollapsed(get_cell(board, p).candidates
                                                    \ {Lowest(get_cell(board, p))}))>>
      ]_vars

\* a collapse of a cell with three or more candidates has pushed its checkpoint: the
\* shadow on top of the stack keeps two or more candidates, none of them the value
\* the live cell is collapsed to
C9_Witness ==
    /\ pc = "propagating"
    /\ previous_states # <<>>
    /\ get_cell(board, collapsing.cell_coords) = Collapsed(collapsing.collapsed_to_num)
    /\ ~get_cell(previous_states[Len(previous_states)], collapsing.cell_coords).collapsed
    /\ Cardinality(get_cell(previous_states[Len(previous_states)],
                            collapsing.cell_coords).candidates) >= 2
    /\ collapsing.collapsed_to_num \notin
           get_cell(previous_states[Len(previous_states)], collapsing.cell_coords).candidates

\* the number of candidates of the cell the collapse step selects
SelectedCandidates == Cardinality(get_cell(board, collapsing'.cell_coords).candidates)

\* the stack is empty when solve starts and shrinks by one on each backtrack
StackStartsEmptyAndShrinks ==
    /\ pc = "ready" => previous_states = <<>>
    /\ (pc = "propagating" /\ pc' = "searching" /\ Contradiction) =>
           Len(previous_states') = Len(previous_states) - 1
    /\ (pc = "propagating" /\ pc' = "searching" /\ ~Contradiction) =>
           previous_states' = previous_states

\* C10 as stated: the stack is empty when solve first starts, shrinks by one entry on
\* each backtrack, and grows by one entry on a collapse exactly when the selected
\* cell had three or more candidates; a collapse discarding one alternative pushes
\* nothing.
C10_StackGrowsOnThreeCandidates ==
    [][/\ StackStartsEmptyAndShrinks
       /\ (pc = "searching" /\ pc' = "propagating") =>
              /\ Len(previous_states') - Len(previous_states) \in {0, 1}
              /\ Len(previous_states') = Len(previous_states) + 1 <=> SelectedCandidates >= 3
      ]_vars

\* C10 amended: the stack is empty when solve first starts, shrinks by one entry on
\* each backtrack, and grows by one entry on a collapse exactly when the selected
\* cell had two or more candidates (at least one alternative is discarded); a
\* collapse of a cell with a single candidate pushes nothing.
C10_StackGrowsOnTwoCandidates ==
    [][/\ StackStartsEmptyAndShrinks
       /\ (pc = "searching" /\ pc' = "propagating") =>
              /\ Len(previous_states') - Len(previous_states) \in {0, 1}
              /\ Len(previous_states') = Len(previous_states) + 1 <=> SelectedCandidates >= 2
      ]_vars

\* a collapse that discarded exactly one alternative has pushed a checkpoint: the
\* shadow on top of the stack has a single candidate
C10_Witness ==
    /\ pc = "propagating"
    /\ previous_states # <<>>
    /\ get_cell(board, collapsing.cell_coords).collapsed
    /\ ~get_cell(previous_states[Len(previous_states)], collapsing.cell_coords).collapsed
    /\ Cardinality(get_cell(previous_states[Len(previous_states)],
                            collapsing.cell_coords).candidates) = 1

----------------------------------------------------------------------------
(* solve on grids where a decision among three candidates or more is retried, and
   on the grids of the main puzzle *)

\* the empty grid with a 3 in the first row
OneGivenGrid == WithEntry(EmptyGrid, Point(2 * RegionSide, 0), RegionSide)

\* the rows of that grid in which one more entry is set
RetryRows == 2

RetryGrids ==
    {WithEntry(OneGivenGrid, p, d) : p \in {q \in Points : q.y < RetryRows}, d \in 0..Side}

InitRetry ==
    /\ starting_state \in StartingGrids \cup RetryGrids
    /\ pc = "new"
    /\ board = EmptyBoard
    /\ previous_states = <<>>
    /\ collapsing = NoCollapse
    /\ result = "none"
    /\ check_result = "none"

SpecRetry == InitRetry /\ [][Next]_vars

----------------------------------------------------------------------------
(* The decision recorded by a checkpoint *)

\* the board lying on checkpoint i: the next checkpoint, or the live board
BoardAbove(i) == IF i < Len(previous_states) THEN previous_states[i + 1] ELSE board

\* the cells at which checkpoint cp keeps an alternative to the board above it: the
\* cell is Uncollapsed in cp and the value it holds above is not among its candidates
DecisionCells(cp, above) ==
    {p \in Points : /\ ~get_cell(cp, p).collapsed
                    /\ get_cell(above, p).collapsed
                    /\ get_cell(above, p).value \notin get_cell(cp, p).candidates}

\* the digits held by Collapsed cells sharing a row, a column or a region with p
PeerValues(b, p) == {get_cell(b, q).value : q \in {r \in Peers[p] : get_cell(b, r).collapsed}}

\* the values already tried for the cell p of cp: those no cell around p rules out
\* and that are candidates no more
Tried(cp, p) == (Digits \ PeerValues(cp, p)) \ get_cell(cp, p).candidates

\* checkpoint cp, under the board `above`, has one decision cell; it is Uncollapsed
\* with candidates left, the value it holds above is the last one tried, and every
\* candidate left is greater than every value tried
CheckpointKeepsUntried(cp, above) ==
    \E cells \in {DecisionCells(cp, above)} : \E p \in cells :
        /\ cells = {p}
        /\ get_cell(cp, p).candidates # {}
        /\ get_cell(above, p).value \in Tried(cp, p)
        /\ \A t \in Tried(cp, p) :
               /\ t <= get_cell(above, p).value
               /\ \A c \in get_cell(cp, p).candidates : t < c

CheckpointInvariant ==
    \A i \in 1..Len(previous_states) :
        CheckpointKeepsUntried(previous_states[i], BoardAbove(i))

\* the last checkpoint
Top(stack) == stack[Len(stack)]

\* C11: in every reachable state of solve, the decision cell of every checkpoint on
\* the stack is Uncollapsed with a non-empty candidate set that excludes every value
\* already tried for that cell at that decision point, all of them lower than every
\* candidate left. The stack is empty before solve; every step leaves this true of
\* the last checkpoint under the live board, a push leaves it true of the checkpoint
\* below under the pushed one, and the checkpoints that stay are not changed (when
\* solve returns, the whole stack is looked at again). The pushed checkpoint has the
\* collapsed cell as its decision cell, and a collapse takes its value among the
\* candidates the board holds, so a restored checkpoint never leads to a value
\* tried before.
C11_CheckpointExcludesTried ==
    [][/\ previous_states' # <<>> => CheckpointKeepsUntried(Top(previous_states'), board')
       /\ \A i \in 1..Len(previous_states) :
              i <= Len(previous_states') => previous_states'[i] = previous_states[i]
       /\ Len(previous_states') - Len(previous_states) \in {-1, 0, 1}
       /\ (Len(previous_states') > Len(previous_states) /\ previous_states # <<>>) =>
              CheckpointKeepsUntried(Top(previous_states), Top(previous_states'))
       /\ pc' = "done" => CheckpointInvariant'
       /\ (pc = "searching" /\ pc' = "propagating") =>
              /\ collapsing'.collapsed_to_num \in
                     get_cell(board, collapsing'.cell_coords).candidates
              /\ Len(previous_states') > Len(previous_states) =>
                     DecisionCells(Top(previous_states'), board') = {collapsing'.cell_coords}
      ]_vars

\* a checkpoint pushed by a retry: two values or more have been tried for its
\* decision cell, and candidates are left
C11_Witness ==
    /\ pc = "propagating"
    /\ previous_states # <<>>
    /\ ~get_cell(previous_states[Len(previous_states)], collapsing.cell_coords).collapsed
    /\ Cardinality(Tried(previous_states[Len(previous_states)], collapsing.cell_coords)) >= 2

----------------------------------------------------------------------------
(* Cell selection *)

\* the number of candidates of the cell at p
Count(b, p) == Cardinality(get_cell(b, p).candidates)

\* p comes before q in row-major order: smaller y, then smaller x
RowMajorBefore(p, q) == p.y < q.y \/ (p.y = q.y /\ p.x < q.x)

\* p is Uncollapsed, no Uncollapsed cell has fewer candidates, and every other
\* Uncollapsed cell with as few comes later in row-major order
IsFirstMinimal(b, p) ==
    /\ ~get_cell(b, p).collapsed
    /\ \A q \in Points \ {p} :
           ~get_cell(b, q).collapsed =>
               \/ Count(b, p) < Count(b, q)
               \/ Count(b, p) = Count(b, q) /\ RowMajorBefore(p, q)

\* C12: in every solve iteration the cell chosen is an Uncollapsed cell whose
\* candidate count is minimal among the Uncollapsed cells of the live board, the first
\* such cell in row-major order; Collapsed cells are never chosen, and None (solved)
\* is returned exactly when no Uncollapsed cell exists.
C12_SelectsFirstMinimal ==
    [][pc = "searching" =>
          \E selected \in {get_coords_of_uncollapsed_cell_with_lowest_entropy(board)} :
              /\ selected = None <=> \A p \in Points : get_cell(board, p).collapsed
              /\ selected # None => selected \in Points /\ IsFirstMinimal(board, selected)
              /\ selected = None <=> (pc' = "done" /\ result' = "Ok")
              /\ selected # None <=> (pc' = "propagating" /\ collapsing'.cell_coords = selected)
      ]_vars

\* a cell was chosen and its checkpoint pushed while a later cell had as many
\* candidates and an earlier one had more
C12_Witness ==
    /\ pc = "propagating"
    /\ previous_states # <<>>
    /\ ~get_cell(Top(previous_states), collapsing.cell_coords).collapsed
    /\ \E q, r \in Points :
           /\ RowMajorBefore(collapsing.cell_coords, q)
           /\ RowMajorBefore(r, collapsing.cell_coords)
           /\ ~get_cell(Top(previous_states), q).collapsed
           /\ ~get_cell(Top(previous_states), r).collapsed
           /\ Count(Top(previous_states), q) = Count(Top(previous_states), collapsing.cell_coords) + 1
           /\ Count(Top(previous_states), r) > Count(Top(previous_states), q)

----------------------------------------------------------------------------
(* The depth of the checkpoint stack *)

\* the cells blank in the starting grid that the board holds Collapsed
CollapsedBlanks(b) ==
    {p \in Points : entry(starting_state, p) = 0 /\ get_cell(b, p).collapsed}

\* C13: in every reachable state the checkpoint stack holds at most 81 boards, and
\* never more boards than the live board has Collapsed cells that were blank in the
\* starting grid.
C13_StackDepthBounded ==
    /\ Len(previous_states) <= Side * Side
    /\ Len(previous_states) <= Cardinality(CollapsedBlanks(board))

\* every collapse so far has pushed a checkpoint: the stack, eight boards deep, is as
\* deep as the bound allows
C13_Witness ==
    /\ pc = "searching"
    /\ Len(previous_states) = Side - 1
    /\ Len(previous_states) = Cardinality(CollapsedBlanks(board))

----------------------------------------------------------------------------
(* Candidate sets are never empty *)

\* every Uncollapsed cell of b has a candidate
NoEmptyCell(b) == \A p \in Points : ~get_cell(b, p).collapsed => get_cell(b, p).candidates # {}

\* C14: no empty candidate set is ever stored: after a successful new, at the start
\* of every solve iteration, and in the board left when solve returns (Ok or
\* SudokuIsUnsolvable), every Uncollapsed cell of the live board and of every
\* checkpoint on the stack has at least one candidate.
C14_NoEmptyCandidateSet ==
    (pc \in {"ready", "searching", "done"} /\ result # "ErrorSudokuContainsAContradiction") =>
        /\ NoEmptyCell(board)
        /\ \A i \in 1..Len(previous_states) : NoEmptyCell(previous_states[i])

\* solve gave up and left a cell whose last candidate a Collapsed relative holds: the
\* removal that would have emptied it was refused
C14_Witness ==
    /\ pc = "done"
    /\ result = "SudokuIsUnsolvable"
    /\ \E p \in Points :
           /\ ~get_cell(board, p).collapsed
           /\ Count(board, p) = 1
           /\ get_cell(board, p).candidates \subseteq PeerValues(board, p)

----------------------------------------------------------------------------
(* The board new builds *)

\* C15: when new returns Ok, the board has the cell Collapsed(d) for every nonzero
\* entry d of the starting grid and, for every zero entry, an Uncollapsed cell whose
\* candidates are exactly the digits 1..9 not given to a cell of its row, column or
\* region (also when a single one is left); the checkpoint stack is empty.
C15_NewBuildsBoard ==
    pc = "ready" =>
        /\ result = "Ok"
        /\ previous_states = <<>>
        /\ \A p \in Points :
               get_cell(board, p) =
                   IF entry(starting_state, p) # 0
                   THEN [collapsed |-> TRUE, value |-> entry(starting_state, p), candidates |-> {}]
                   ELSE [collapsed |-> FALSE, value |-> 0,
                         candidates |-> Digits \ {entry(starting_state, q) : q \in Peers[p]}]

\* new returned Ok and left a blank cell Uncollapsed with a single candidate, in a
\* grid whose givens rule out digits through rows, columns and regions
C15_Witness ==
    /\ pc = "ready"
    /\ \E p \in Points :
           /\ entry(starting_state, p) = 0
           /\ get_cell(board, p) = Uncollapsed({CHOOSE d \in Digits : d \in Admissible(starting_state, p)})

----------------------------------------------------------------------------
(* Deferred collapse *)

\* the Collapsed cells of a board
CollapsedCells(b) == {p \in Points : get_cell(b, p).collapsed}

\* some Uncollapsed cell of b has a single candidate
HasSingle(b) == \E p \in Points : ~get_cell(b, p).collapsed /\ Count(b, p) = 1

\* C16: propagation never turns an Uncollapsed cell into a Collapsed one (it only
\* takes the propagated value from candidate sets), the collapse changes the selected
\* cell alone, so a successful iteration changes exactly one cell from Uncollapsed to
\* Collapsed; and whenever the board at the start of an iteration has an Uncollapsed
\* cell with a single candidate, the iteration selects a single-candidate cell and
\* pushes no checkpoint.
C16_DeferredCollapse ==
    [][/\ (pc = "propagating" /\ ~Contradiction) =>
              /\ pc' = "searching"
              /\ CollapsedCells(board') = CollapsedCells(board)
              /\ \A p \in Points :
                     \/ get_cell(board', p) = get_cell(board, p)
                     \/ /\ ~get_cell(board', p).collapsed
                        /\ get_cell(board', p).candidates =
                               get_cell(board, p).candidates \ {collapsing.collapsed_to_num}
       /\ (pc = "searching" /\ pc' = "propagating") =>
              /\ CollapsedCells(board') = CollapsedCells(board) \cup {collapsing'.cell_coords}
              /\ collapsing'.cell_coords \notin CollapsedCells(board)
              /\ \A p \in Points \ {collapsing'.cell_coords} :
                     get_cell(board', p) = get_cell(board, p)
       /\ (pc = "searching" /\ HasSingle(board)) =>
              /\ pc' = "propagating"
              /\ Count(board, collapsing'.cell_coords) = 1
              /\ previous_states' = previous_states
      ]_vars

\* a propagation has left a cell Uncollapsed with a single candidate: its other
\* digits are all held by Collapsed cells around it, and it had more candidates in the
\* last checkpoint
C16_Witness ==
    /\ pc = "searching"
    /\ previous_states # <<>>
    /\ \E p \in Points :
           /\ ~get_cell(board, p).collapsed
           /\ Count(board, p) = 1
           /\ Digits \ get_cell(board, p).candidates = PeerValues(board, p)
           /\ Count(Top(previous_states), p) > 1

----------------------------------------------------------------------------
(* The retry after a backtrack *)

\* the smallest digit that no Collapsed cell around p rules out in cp and that is
\* greater than v (0 if there is none)
NextUntried(cp, p, v) ==
    IF \E c \in Digits \ PeerValues(cp, p) : c > v
    THEN CHOOSE c \in Digits \ PeerValues(cp, p) :
             /\ c > v
             /\ \A e \in Digits \ PeerValues(cp, p) : e > v => c <= e
    ELSE 0

\* C17: the iteration immediately following a backtrack selects the very cell whose
\* collapse created the restored checkpoint (its shadow has strictly fewer candidates
\* than every other Uncollapsed cell of the restored board) and collapses it to the
\* smallest candidate greater than the value tried before. At the backtrack the
\* restored board is the last checkpoint, the scan of it returns its decision cell and
\* the lowest candidate of that cell is the next untried value; and every iteration
\* collapses the cell the scan of its board returns to the lowest candidate.
C17_RetrySameCell ==
    [][/\ (Contradiction /\ previous_states # <<>>) =>
              \E p \in Points :
                  /\ DecisionCells(Top(previous_states), board) = {p}
                  /\ board' = Top(previous_states)
                  /\ pc' = "searching"
                  /\ \A q \in Points \ {p} :
                         ~get_cell(board', q).collapsed => Count(board', p) < Count(board', q)
                  /\ get_coords_of_uncollapsed_cell_with_lowest_entropy(board') = p
                  /\ Lowest(get_cell(board', p)) =
                         NextUntried(board', p, get_cell(board, p).value)
       /\ (pc = "searching" /\ pc' = "propagating") =>
              /\ collapsing'.cell_coords =
                     get_coords_of_uncollapsed_cell_with_lowest_entropy(board)
              /\ collapsing'.collapsed_to_num = Lowest(get_cell(board, collapsing'.cell_coords))
              /\ get_cell(board', collapsing'.cell_coords).value = collapsing'.collapsed_to_num
      ]_vars

\* a retry has collapsed a cell: the value is not the lowest digit the Collapsed cells
\* around it leave, a lower one was tried before
C17_Witness ==
    /\ pc = "propagating"
    /\ \E d \in Digits \ PeerValues(board, collapsing.cell_coords) :
           d < collapsing.collapsed_to_num

----------------------------------------------------------------------------
(* Propagation consistency *)

\* in board b, no cell around a Collapsed cell holds its value or has it as a candidate
Propagated(b) ==
    \A p \in Points :
        get_cell(b, p).collapsed =>
            \A q \in Peers[p] :
                /\ get_cell(b, q).collapsed => get_cell(b, q).value # get_cell(b, p).value
                /\ get_cell(b, p).value \notin get_cell(b, q).candidates

\* C18: after a successful new and at the start of every solve iteration, in the live
\* board and in every checkpoint on the stack, for every Collapsed cell with value v
\* no cell of its row, column or region is Collapsed with v and none that is
\* Uncollapsed has v among its candidates.
C18_PropagationConsistent ==
    pc \in {"ready", "searching"} =>
        /\ Propagated(board)
        /\ \A i \in 1..Len(previous_states) : Propagated(previous_states[i])

\* an iteration starts after the propagation of a collapse: a cell blank in the
\* starting grid is Collapsed, and a cell around it that had its value as a candidate
\* in the last checkpoint has it no more
C18_Witness ==
    /\ pc = "searching"
    /\ previous_states # <<>>
    /\ \E p \in CollapsedBlanks(board) : \E q \in Peers[p] :
           /\ ~get_cell(board, q).collapsed
           /\ get_cell(board, p).value \in get_cell(Top(previous_states), q).candidates

----------------------------------------------------------------------------
(* Given digits *)

\* board b holds every given digit of the starting grid, Collapsed
KeepsGivens(b) ==
    \A p \in Points :
        entry(starting_state, p) # 0 =>
            /\ get_cell(b, p).collapsed
            /\ get_cell(b, p).value = entry(starting_state, p)

\* C19: given digits are never changed: once new has returned Ok, every cell given a
\* nonzero digit d in the starting grid is Collapsed(d) in the live board and in every
\* checkpoint, through any sequence of collapses and backtracks; so when solve returns
\* Ok the final board agrees with the starting grid on every nonzero entry.
C19_GivensKept ==
    (pc # "new" /\ result # "ErrorSudokuContainsAContradiction") =>
        /\ KeepsGivens(board)
        /\ \A i \in 1..Len(previous_states) : KeepsGivens(previous_states[i])

\* a cell is collapsed again after a backtrack (a lower value its relatives leave
\* was tried before), in a grid with givens and with checkpoints on the stack
C19_Witness ==
    /\ pc = "propagating"
    /\ previous_states # <<>>
    /\ \E p \in Points : entry(starting_state, p) # 0
    /\ \E d \in Digits \ PeerValues(board, collapsing.cell_coords) :
           d < collapsing.collapsed_to_num

----------------------------------------------------------------------------
(* Propagation in a given order of the relatives *)

\* the relatives of every cell in row-major order, computed once
SortedRelatives == [p \in Points |-> SelectSeq(RowMajor, LAMBDA q : q \in RelativesOf[p])]

\* the orders tried go up to this shift
MaxShift == 2

\* an order of visit: the sorted relatives, reversed or not, started at some shift
Schemes == [reversed : BOOLEAN, shift : 0..MaxShift]

\* sequence s read by the scheme
InOrder(s, scheme) ==
    [i \in 1..Len(s) |->
        s[IF scheme.reversed
          THEN Len(s) - ((i - 1 + scheme.shift) % Len(s))
          ELSE ((i - 1 + scheme.shift) % Len(s)) + 1]] \o <<>>

\* the orders of visit of every cell, computed once
OrdersOfRelatives ==
    [p \in Points |-> [scheme \in Schemes |-> InOrder(SortedRelatives[p], scheme)]]

\* relatives_coords of propagate_collapse for the cell p, in the order of the scheme
relatives_coords(p, scheme) == OrdersOfRelatives[p][scheme]

\* the loop of propagate_collapse from the i-th relative on: remove(value)? on one
\* relative after the other, the first Err ends it with the board as it is then
RECURSIVE propagate_loop(_, _, _, _)
propagate_loop(b, order, i, value) ==
    IF i > Len(order) THEN [ok |-> TRUE, board |-> b]
    ELSE IF remove_ok(get_cell(b, order[i]), value)
         THEN propagate_loop(set_cell(b, order[i], remove_cell(get_cell(b, order[i]), value)),
                             order, i + 1, value)
         ELSE [ok |-> FALSE, board |-> b]

\* a loop that leaves out the first relative it is handed
propagate_collapse_skipping_first(b, order, value) == propagate_loop(b, order, 2, value)

\* propagate_collapse with the relatives in the given order
propagate_collapse_in_order(b, order, value) == propagate_loop(b, order, 1, value)

\* new with every propagation visiting the relatives by the scheme: the row loop ...
RECURSIVE new_row_in_order(_, _, _, _, _)
new_row_in_order(starting, b, y, x, scheme) ==
    IF x = Side THEN [ok |-> TRUE, board |-> b]
    ELSE IF starting[y + 1][x + 1] = 0 THEN new_row_in_order(starting, b, y, x + 1, scheme)
         ELSE LET done == propagate_collapse_in_order(
                              set_cell(b, Point(x, y), new_filled(starting[y + 1][x + 1])),
                              relatives_coords(Point(x, y), scheme),
                              starting[y + 1][x + 1])
              IN  IF done.ok THEN new_row_in_order(starting, done.board, y, x + 1, scheme)
                  ELSE [ok |-> FALSE, board |-> EmptyBoard]

\* ... and the loop over the rows
RECURSIVE new_rows_in_order(_, _, _, _)
new_rows_in_order(starting, b, y, scheme) ==
    IF y = Side THEN [ok |-> TRUE, board |-> b]
    ELSE LET row == new_row_in_order(starting, b, y, 0, scheme)
         IN  IF row.ok THEN new_rows_in_order(starting, row.board, y + 1, scheme) ELSE row

new_in_order(starting, scheme) == new_rows_in_order(starting, EmptyBoard, 0, scheme)

\* SudokuSolver::new, the relatives visited by some scheme
NewInOrder ==
    /\ pc = "new"
    /\ \E scheme \in Schemes : \E made \in {new_in_order(starting_state, scheme)} :
           /\ board' = made.board
           /\ pc' = IF made.ok THEN "ready" ELSE "done"
           /\ result' = IF made.ok THEN "Ok" ELSE "ErrorSudokuContainsAContradiction"
    /\ previous_states' = <<>>
    /\ UNCHANGED <<starting_state, collapsing, check_result>>

\* the rest of the iteration, with the relatives visited by some scheme:
\* propagate_collapse returns Ok and the loop goes on, or it returns Err and the last
\* checkpoint is restored, or it returns Err with no checkpoint left and solve returns
\* SudokuIsUnsolvable with the board as the loop left it
PropagateInOrder ==
    /\ pc = "propagating"
    /\ \E scheme \in Schemes :
       \E done \in {propagate_collapse_in_order(board,
                                                relatives_coords(collapsing.cell_coords, scheme),
                                                collapsing.collapsed_to_num)} :
           \/ /\ done.ok
              /\ board' = done.board
              /\ pc' = "searching"
              /\ UNCHANGED <<previous_states, result>>
           \/ /\ ~done.ok
              /\ previous_states # <<>>
              /\ board' = popped_state(previous_states)
              /\ previous_states' = after_pop(previous_states)
              /\ pc' = "searching"
              /\ UNCHANGED result
           \/ /\ ~done.ok
              /\ previous_states = <<>>
              /\ board' = done.board
              /\ pc' = "done"
              /\ result' = "SudokuIsUnsolvable"
              /\ UNCHANGED previous_states
    /\ collapsing' = NoCollapse
    /\ UNCHANGED <<starting_state, check_result>>

NextInOrder ==
    \/ NewInOrder
    \/ SolveStart
    \/ SolveSolved
    \/ CollapseCellAndSaveState
    \/ PropagateInOrder
    \/ CheckIfCorrect

\* the rows (from the top) in which an entry of the grids below is changed
OrderRows == 1

\* the grids whose propagations are run in every order tried
OrderGrids ==
    {WithEntry(Blanked(n), p, d) :
        n \in 0..MaxRemoved, p \in {q \in Points : q.y < OrderRows}, d \in 0..Side}

InitInOrder ==
    /\ starting_state \in OrderGrids
    /\ pc = "new"
    /\ board = EmptyBoard
    /\ previous_states = <<>>
    /\ collapsing = NoCollapse
    /\ result = "none"
    /\ check_result = "none"

SpecInOrder == InitInOrder /\ [][NextInOrder]_vars

\* the scheme all others are compared with: sorted, from the first relative
FirstScheme == [reversed |-> FALSE, shift |-> 0]

\* C20: whatever the order in which a propagation visits the relatives, the result of
\* new (Ok or error, and the board on Ok), the cell each iteration selects and the
\* checkpoint it pushes, the outcome of each propagation (go on with the same board,
\* restore the last checkpoint, or give up), the result of solve and the final board on
\* Ok are those that the visit in sorted order produces from the same state (and
\* those of the propagation taken as one step on the set of relatives).
C20_OrderIndependent ==
    [][/\ pc = "new" =>
              \E made \in {new_in_order(starting_state, FirstScheme)} :
                  /\ made = new(starting_state)
                  /\ result' = (IF made.ok THEN "Ok" ELSE "ErrorSudokuContainsAContradiction")
                  /\ made.ok => board' = made.board /\ pc' = "ready"
                  /\ previous_states' = <<>>
       /\ pc = "propagating" =>
              \E done \in {propagate_collapse_in_order(
                               board, relatives_coords(collapsing.cell_coords, FirstScheme),
                               collapsing.collapsed_to_num)} :
                  /\ done.ok = propagate_ok(board, collapsing.cell_coords,
                                            collapsing.collapsed_to_num)
                  /\ done.ok =>
                         /\ board' = done.board
                         /\ board' = propagate_collapse(board, collapsing.cell_coords,
                                                        collapsing.collapsed_to_num)
                         /\ previous_states' = previous_states
                         /\ pc' = "searching"
                         /\ result' = result
                  /\ (~done.ok /\ previous_states # <<>>) =>
                         /\ board' = Top(previous_states)
                         /\ previous_states' = SubSeq(previous_states, 1, Len(previous_states) - 1)
                         /\ pc' = "searching"
                         /\ result' = result
                  /\ (~done.ok /\ previous_states = <<>>) =>
                         /\ pc' = "done"
                         /\ result' = "SudokuIsUnsolvable"
                         /\ previous_states' = <<>>
       /\ pc = "searching" =>
              \/ /\ AllCollapsed(board)
                 /\ pc' = "done" /\ result' = "Ok"
                 /\ board' = board /\ previous_states' = previous_states
              \/ \E p \in Points :
                     /\ IsFirstMinimal(board, p)
                     /\ pc' = "propagating"
                     /\ collapsing' = [cell_coords |-> p,
                                       collapsed_to_num |-> Lowest(get_cell(board, p))]
                     /\ board' = With(board, p, Collapsed(Lowest(get_cell(board, p))))
                     /\ previous_states' =
                            IF Count(board, p) > 1
                            THEN previous_states \o
                                     <<With(board, p,
                                            Uncollapsed(get_cell(board, p).candidates
                                                            \ {Lowest(get_cell(board, p))}))>>
                            ELSE previous_states
      ]_vars

\* solve gave up and left a half-done propagation, which depends on the order of
\* visit: around a Collapsed cell, one cell still has its value as a candidate and
\* another has lost it to that cell alone
C20_Witness ==
    /\ pc = "done"
    /\ result = "SudokuIsUnsolvable"
    /\ \E p \in CollapsedBlanks(board) : \E q, r \in Peers[p] :
           /\ get_cell(board, p).value \in get_cell(board, q).candidates
           /\ ~get_cell(board, r).collapsed
           /\ get_cell(board, r).candidates # {}
           /\ get_cell(board, p).value \notin get_cell(board, r).candidates
           /\ \A t \in Peers[r] \ {p} :
                  get_cell(board, t).collapsed => get_cell(board, t).value # get_cell(board, p).value

====
